---- MODULE Spec2Model ----
(***************************************************************************)
(* A model of the JA certificate generator's web application:              *)
(*   FileParser            (name extraction from roster text),             *)
(*   CertificateGenerator  (template, rendering, batch, archive),          *)
(*   CertificateApp        (the session: name list, form, sections).       *)
(* Strings are sequences of one-character strings, so that trimming,       *)
(* splitting and the regular expressions of the source are computed.       *)
(***************************************************************************)
EXTENDS Integers, Sequences, FiniteSets, TLC

(***************************************************************************)
(* Characters and the string primitives of the source (String.prototype    *)
(* methods and the regular-expression character classes it uses).          *)
(***************************************************************************)
LowerSeq == <<"a","b","c","d","e","f","g","h","i","j","k","l","m",
              "n","o","p","q","r","s","t","u","v","w","x","y","z">>

UpperSeq == <<"A","B","C","D","E","F","G","H","I","J","K","L","M",
              "N","O","P","Q","R","S","T","U","V","W","X","Y","Z">>

Range(f) == {f[i] : i \in DOMAIN f}

Lower == Range(LowerSeq)

Upper == Range(UpperSeq)

DigitChars == {"0","1","2","3","4","5","6","7","8","9"}

\* [a-zA-Z]
IsLetter(c) == c \in Lower \cup Upper

\* \d
IsDigit(c) == c \in DigitChars

\* \s
IsSpace(c) == c \in {" ", "\t", "\n", "\r"}

\* \w
IsWordChar(c) == IsLetter(c) \/ IsDigit(c) \/ c = "_"

\* one character of String.prototype.toLowerCase
LowerChar(c) ==
    IF c \in Upper
    THEN LowerSeq[CHOOSE i \in DOMAIN UpperSeq : UpperSeq[i] = c]
    ELSE c

ToLower(s) == [i \in DOMAIN s |-> LowerChar(s[i])]

RECURSIVE TrimLeft(_)
TrimLeft(s) ==
    IF s # <<>> /\ IsSpace(Head(s)) THEN TrimLeft(Tail(s)) ELSE s

RECURSIVE TrimRight(_)
TrimRight(s) ==
    IF s # <<>> /\ IsSpace(s[Len(s)])
    THEN TrimRight(SubSeq(s, 1, Len(s) - 1))
    ELSE s

\* String.prototype.trim
Trim(s) == TrimRight(TrimLeft(s))

\* s.startsWith(p)
StartsWith(s, p) == Len(p) <= Len(s) /\ SubSeq(s, 1, Len(p)) = p

\* s.includes(sub)
Includes(s, sub) ==
    \E i \in 1..(Len(s) - Len(sub) + 1) : SubSeq(s, i, i + Len(sub) - 1) = sub

\* s.split(/[...]/) for a character class: empty pieces are kept
RECURSIVE SplitAcc(_, _, _, _)
SplitAcc(s, seps, cur, acc) ==
    IF s = <<>> THEN Append(acc, cur)
    ELSE IF Head(s) \in seps
         THEN SplitAcc(Tail(s), seps, <<>>, Append(acc, cur))
         ELSE SplitAcc(Tail(s), seps, Append(cur, Head(s)), acc)

SplitOn(s, seps) == SplitAcc(s, seps, <<>>, <<>>)

\* s.split(/\s+/).filter(word => word.length > 0)
SplitWords(s) ==
    SelectSeq(SplitOn(s, {" ", "\t", "\n", "\r"}), LAMBDA w : w # <<>>)

\* s.replace(/\s+/g, ' ')
RECURSIVE CollapseSpaces(_)
CollapseSpaces(s) ==
    IF s = <<>> THEN <<>>
    ELSE IF IsSpace(Head(s))
         THEN <<" ">> \o CollapseSpaces(TrimLeft(s))
         ELSE <<Head(s)>> \o CollapseSpaces(Tail(s))

\* the number of characters of s satisfying a class
RECURSIVE CountLetters(_)
CountLetters(s) ==
    IF s = <<>> THEN 0
    ELSE (IF IsLetter(Head(s)) THEN 1 ELSE 0) + CountLetters(Tail(s))

\* array.indexOf(x): the first index holding x (0 when absent)
IndexOf(seq, x) ==
    IF \E i \in DOMAIN seq : seq[i] = x
    THEN CHOOSE i \in DOMAIN seq : seq[i] = x /\ \A j \in 1..(i - 1) : seq[j] # x
    ELSE 0

RECURSIVE Flatten(_)
Flatten(ss) == IF ss = <<>> THEN <<>> ELSE Head(ss) \o Flatten(Tail(ss))

(***************************************************************************)
(* FileParser: classification of one candidate string.                     *)
(***************************************************************************)
MinNameLength == 2

MaxNameLength == 100

DomainSuffixes == { <<".","c","o","m">>, <<".","o","r","g">>,
                    <<".","n","e","t">>, <<".","e","d","u">> }

\* /^\d+$/
MatchesOnlyDigits(s) == s # <<>> /\ \A i \in DOMAIN s : IsDigit(s[i])

\* /^https?:\/\//
MatchesUrl(s) ==
    \/ StartsWith(s, <<"h","t","t","p",":","/","/">>)
    \/ StartsWith(s, <<"h","t","t","p","s",":","/","/">>)

\* /^\w+\.\w+$/
MatchesFileExtension(s) ==
    \E i \in 2..(Len(s) - 1) :
        /\ s[i] = "."
        /\ \A j \in DOMAIN s : j # i => IsWordChar(s[j])

\* the invalid patterns without the one for e-mail addresses
MatchesInvalidPatternNoEmail(s) ==
    \/ MatchesOnlyDigits(s)
    \/ MatchesUrl(s)
    \/ \E d \in DomainSuffixes : Includes(s, d)
    \/ MatchesFileExtension(s)

MatchesInvalidPattern(s) ==
    \/ MatchesOnlyDigits(s)
    \/ "@" \in Range(s)
    \/ MatchesUrl(s)
    \/ \E d \in DomainSuffixes : Includes(s, d)
    \/ MatchesFileExtension(s)

isValidName(str) ==
    LET cleanStr == Trim(str)
        words    == SplitWords(cleanStr)
    IN  /\ str # <<>>
        /\ Len(cleanStr) >= MinNameLength
        /\ Len(cleanStr) <= MaxNameLength
        /\ \E i \in DOMAIN cleanStr : IsLetter(cleanStr[i])
        /\ 2 * CountLetters(cleanStr) >= Len(cleanStr)
        /\ Len(words) >= 2
        /\ \A i \in DOMAIN words : IsLetter(words[i][1])
        /\ ~MatchesInvalidPattern(cleanStr)

\* a cleaning that puts a space where it strips a character and does not
\* trim afterwards
cleanNameSpaced(name) ==
    [i \in DOMAIN CollapseSpaces(Trim(name)) |->
        LET c == CollapseSpaces(Trim(name))[i]
        IN  IF IsWordChar(c) \/ IsSpace(c) \/ c \in {"'", "-"} THEN c ELSE " "]

\* name.trim().replace(/\s+/g, ' ').replace(/[^\w\s'-]/g, '').trim()
cleanName(name) ==
    Trim(SelectSeq(CollapseSpaces(Trim(name)),
                   LAMBDA c : IsWordChar(c) \/ IsSpace(c) \/ c \in {"'", "-"}))

HeaderKeywords ==
    { <<"s","t","u","d","e","n","t">>, <<"n","a","m","e">>,
      <<"c","l","a","s","s">>, <<"l","i","s","t">>,
      <<"r","o","s","t","e","r">>, <<"g","r","a","d","e">>,
      <<"f","i","r","s","t">>, <<"l","a","s","t">>, <<"f","u","l","l">>,
      <<"s","t","u","d","e","n","t","s">>, <<"n","a","m","e","s">> }

isHeaderLine(line) ==
    /\ \E k \in HeaderKeywords : Includes(ToLower(line), k)
    /\ ~isValidName(line)

\* line.replace(/^\d+\.?\s*/, '')
RECURSIVE DropDigits(_)
DropDigits(s) ==
    IF s # <<>> /\ IsDigit(Head(s)) THEN DropDigits(Tail(s)) ELSE s

StripNumberPrefix(line) ==
    IF line # <<>> /\ IsDigit(Head(line))
    THEN LET rest == DropDigits(line)
         IN  TrimLeft(IF rest # <<>> /\ Head(rest) = "." THEN Tail(rest) ELSE rest)
    ELSE line

\* the ASCII members of the class of /^[-*...]\s*/
BulletChars == {"-", "*"}

StripBulletPrefix(line) ==
    IF line # <<>> /\ Head(line) \in BulletChars
    THEN TrimLeft(Tail(line))
    ELSE line

extractNamesFromLine(line) ==
    LET cleanLine == Trim(StripBulletPrefix(Trim(StripNumberPrefix(line))))
        parts     == [i \in DOMAIN SplitOn(cleanLine, {",", ";", "|"}) |->
                         Trim(SplitOn(cleanLine, {",", ";", "|"})[i])]
    IN  IF isValidName(cleanLine)
        THEN <<cleanLine>>
        ELSE SelectSeq(parts, isValidName)

\* a filter that keeps the last occurrence of each name instead of the first
KeepLastOccurrences(arr) ==
    LET keep == {i \in DOMAIN arr : \A j \in (i + 1)..Len(arr) : arr[j] # arr[i]}
        F[i \in 0..Len(arr)] ==
            IF i = 0 THEN <<>>
            ELSE IF i \in keep THEN Append(F[i - 1], arr[i]) ELSE F[i - 1]
    IN  F[Len(arr)]

\* names.filter((name, index, array) => array.indexOf(name) === index)
KeepFirstOccurrences(arr) ==
    LET keep == {i \in DOMAIN arr : IndexOf(arr, arr[i]) = i}
        F[i \in 0..Len(arr)] ==
            IF i = 0 THEN <<>>
            ELSE IF i \in keep THEN Append(F[i - 1], arr[i]) ELSE F[i - 1]
    IN  F[Len(arr)]

\* names.map(name => this.cleanName(name)).filter(name => name && this.isValidName(name))
CleanedValid(names) ==
    SelectSeq([i \in DOMAIN names |-> cleanName(names[i])],
              LAMBDA n : n # <<>> /\ isValidName(n))

cleanAndValidateNames(names) == KeepFirstOccurrences(CleanedValid(names))

\* text.split('\n').map(line => line.trim()).filter(line => line.length > 0)
TextLines(text) ==
    SelectSeq([i \in DOMAIN SplitOn(text, {"\n"}) |-> Trim(SplitOn(text, {"\n"})[i])],
              LAMBDA l : l # <<>>)

\* the names pushed by the line loop of extractNamesFromText
LineCandidates(text) ==
    LET lines == SelectSeq(TextLines(text), LAMBDA l : ~isHeaderLine(l))
    IN  Flatten([i \in DOMAIN lines |-> extractNamesFromLine(lines[i])])

extractNamesFromText(text) ==
    IF text = <<>> THEN <<>>
    ELSE cleanAndValidateNames(LineCandidates(text))

\* line.split(/[,;\t]/).map(cell => cell.trim().replace(/['"]/g, ''))
RowCells(line) ==
    [i \in DOMAIN SplitOn(line, {",", ";", "\t"}) |->
        SelectSeq(Trim(SplitOn(line, {",", ";", "\t"})[i]),
                  LAMBDA c : c \notin {"'", "\""})]

\* the cell loop of parseCsvFile / parseXlsxFile over the given rows
CellNames(rows) ==
    Flatten([r \in DOMAIN rows |->
        Flatten([c \in DOMAIN RowCells(rows[r]) |->
            extractNamesFromText(RowCells(rows[r])[c])])])

\* [...new Set(names)]: insertion order of the first occurrences
SetOrder(names) == KeepFirstOccurrences(names)

\* a table parser that adds the lines-mode names to the ones found in cells
parseCsvTextWithLines(text) ==
    SetOrder(CellNames(TextLines(text)) \o extractNamesFromText(text))

\* parseCsvFile, from the text that readFileAsText resolves with
parseCsvText(text) ==
    LET names == CellNames(TextLines(text))
    IN  IF Len(names) = 0 THEN extractNamesFromText(text) ELSE SetOrder(names)

\* parseXlsxFile from the sheet's CSV rendering on: header rows are skipped
parseXlsxCsv(csv) ==
    LET names == CellNames(SelectSeq(TextLines(csv), LAMBDA l : ~isHeaderLine(l)))
    IN  IF Len(names) = 0 THEN extractNamesFromText(csv) ELSE SetOrder(names)


(***************************************************************************)
(* FileParser: dispatch on the file kind.  A file is [ext, type, text]:    *)
(* the extension of file.name, file.type, and the text that reading or     *)
(* decoding the file yields.  An outcome is a resolved name list or a      *)
(* rejection with the thrown error.                                        *)
(***************************************************************************)
MimeTxt == "text/plain"

MimeCsv == "text/csv"

MimeCsvAlt == "text/comma-separated-values"

MimeDocx == "application/vnd.openxmlformats-officedocument.wordprocessingml.document"

MimeXlsx == "application/vnd.openxmlformats-officedocument.spreadsheetml.sheet"

MimeXls == "application/vnd.ms-excel"

MimePdf == "application/pdf"

\* the keys of this.supportedFormats
SupportedFormats == {MimeTxt, MimeCsv, MimeDocx, MimeXlsx, MimePdf, MimeXls, MimeCsvAlt}

\* extensionMap[extension] || 'text/plain'
ExtensionType(ext) ==
    CASE ext = "txt"  -> MimeTxt
      [] ext = "csv"  -> MimeCsv
      [] ext = "docx" -> MimeDocx
      [] ext = "doc"  -> MimeDocx
      [] ext = "xlsx" -> MimeXlsx
      [] ext = "xls"  -> MimeXls
      [] ext = "pdf"  -> MimePdf
      [] OTHER        -> MimeTxt

detectFileType(file) ==
    IF file.type # "" /\ file.type \in SupportedFormats
    THEN file.type
    ELSE ExtensionType(file.ext)

Resolved(names) == [ok |-> TRUE, names |-> names, error |-> "none"]

Rejected(error) == [ok |-> FALSE, names |-> <<>>, error |-> error]

parseTextFile(file) == Resolved(extractNamesFromText(file.text))

parseCsvFile(file) == Resolved(parseCsvText(file.text))

\* mammoth is the document-text collaborator (window.mammoth)
parseDocxFile(file, mammoth) ==
    IF ~mammoth THEN Rejected("DOCX parsing failed: Library not loaded")
    ELSE IF Trim(file.text) = <<>>
         THEN Rejected("DOCX parsing failed: File appears to be corrupted")
         ELSE Resolved(extractNamesFromText(file.text))

\* xlsx is the spreadsheet collaborator (window.XLSX)
parseXlsxFile(file, xlsx) ==
    IF ~xlsx THEN Rejected("Failed to parse XLSX file: XLSX parser not available")
    ELSE IF Trim(file.text) = <<>>
         THEN Rejected("Failed to parse XLSX file: No data found in XLSX worksheet")
         ELSE Resolved(parseXlsxCsv(file.text))

parsePdfFile(file) == Rejected("PDF files are not supported in the web version")

\* parseFile: every rejection is rethrown as "Failed to parse file: ..."
\* (parseDocxAlternative only ever throws, so it changes no outcome)
parseFile(file, mammoth, xlsx) ==
    LET fileType == detectFileType(file)
    IN  CASE fileType \in {MimeTxt}             -> parseTextFile(file)
          [] fileType \in {MimeCsv, MimeCsvAlt} -> parseCsvFile(file)
          [] fileType = MimeDocx                -> parseDocxFile(file, mammoth)
          [] fileType \in {MimeXlsx, MimeXls}   -> parseXlsxFile(file, xlsx)
          [] fileType = MimePdf                 -> parsePdfFile(file)
          [] OTHER                              -> parseTextFile(file)

(***************************************************************************)
(* Inputs.                                                                  *)
(***************************************************************************)
AlKo == <<"A","l"," ","K","o">>

BoLi == <<"B","o"," ","L","i">>

alko == <<"a","l"," ","k","o">>

\* the lines a roster text is built from
LinePool ==
    { AlKo, BoLi,
      <<"A","l"," ","K","o",".">>,
      <<"N","a","m","e",",","G","r","a","d","e">>,
      <<"B","o"," ","L","i",";","A","l"," ","K","o">>,
      <<"4","2">> }

MaxLines == 3

RECURSIVE JoinLines(_)
JoinLines(ls) ==
    IF ls = <<>> THEN <<>>
    ELSE IF Len(ls) = 1 THEN ls[1]
         ELSE ls[1] \o <<"\n">> \o JoinLines(Tail(ls))

TextPool ==
    {JoinLines(ls) : ls \in UNION {[1..n -> LinePool] : n \in 0..MaxLines}}

\* file extensions, with the file.type a browser reports for each
TypeOfExt(ext) ==
    CASE ext = "txt"  -> MimeTxt
      [] ext = "csv"  -> MimeCsv
      [] ext = "docx" -> MimeDocx
      [] ext = "doc"  -> "application/msword"
      [] ext = "xlsx" -> MimeXlsx
      [] ext = "xls"  -> MimeXls
      [] ext = "pdf"  -> MimePdf
      [] ext = "png"  -> "image/png"

Extensions == {"txt", "csv", "docx", "doc", "xlsx", "xls", "pdf", "png"}

FilePool ==
    {[ext |-> e, type |-> t, text |-> x] :
        e \in Extensions, t \in {"", "std"}, x \in TextPool}

FileOf(f) == [f EXCEPT !.type = IF f.type = "std" THEN TypeOfExt(f.ext) ELSE ""]

\* the roster of the table example: a header row of labels and two data rows
JohnSmith ==
    <<"J","o","h","n"," ","S","m","i","t","h">>

MariaGarcia ==
    <<"M","a","r","i","a"," ","G","a","r","c","i","a">>

StudentNameGrade ==
    <<"S","t","u","d","e","n","t"," ","N","a","m","e",",","G","r","a",
      "d","e">>

T_HeaderExample ==
    StudentNameGrade \o <<"\n">> \o JohnSmith \o <<",","K","\n">>
        \o MariaGarcia \o <<",","K">>

\* a table whose first row holds a name next to a cell with a keyword and a number
T_NameBesideLabel ==
    AlKo \o <<",","G","r","a","d","e"," ","5","\n">> \o BoLi \o <<",","K">>

\* a name written with an apostrophe and a hyphen
AlOKoLi == <<"A","l"," ","O","'","K","o","-","L","i">>

\* rosters handed to parseFile besides the texts built from LinePool
ExampleFiles ==
    {[ext |-> e, type |-> TypeOfExt(e), text |-> x] :
        e \in {"txt", "csv", "xlsx"},
        x \in {T_HeaderExample, T_NameBesideLabel, AlOKoLi \o <<",","K">>, AlOKoLi,
               <<"K","o",","," ","A","l">>}}

(***************************************************************************)
(* CertificateGenerator.  A rendered document (pdfBytes) is the record of  *)
(* what was stamped on which template; JavaScript's null and undefined are *)
(* the values Null and Undefined.                                          *)
(***************************************************************************)
Null == <<"null">>

Undefined == <<"undefined">>

Truthy(v) == v \notin {<<>>, Null, Undefined}

\* info[key] of a JavaScript object: undefined when the key is absent
Prop(info, key) == IF key \in DOMAIN info THEN info[key] ELSE Undefined

Unstamped == <<"unstamped">>

\* the pdfBytes of a result that has none
NoDoc == [ template |-> "none", studentName |-> Unstamped, schoolName |-> Unstamped,
           date |-> Unstamped, jaVolunteer |-> Unstamped, teacher |-> Unstamped ]

(***************************************************************************)
(* Dates.  A date string is the value of a date input, "YYYY-MM-DD";       *)
(* new Date(dateString) is midnight UTC of that day, and                   *)
(* toLocaleDateString renders the calendar date that instant has on the    *)
(* host, whose zone is utcOffset minutes east of UTC.                      *)
(***************************************************************************)
Digits == <<"0","1","2","3","4","5","6","7","8","9">>

DigitValue(c) == (CHOOSE k \in DOMAIN Digits : Digits[k] = c) - 1

RECURSIVE ParseInt(_)
ParseInt(s) ==
    IF s = <<>> THEN 0 ELSE 10 * ParseInt(SubSeq(s, 1, Len(s) - 1)) + DigitValue(s[Len(s)])

RECURSIVE Decimal(_)
Decimal(n) ==
    IF n < 10 THEN <<Digits[n + 1]>> ELSE Decimal(n \div 10) \o <<Digits[(n % 10) + 1]>>

Pad(n, width) == [i \in 1..(width - Len(Decimal(n))) |-> "0"] \o Decimal(n)

IsLeapYear(y) == (y % 4 = 0 /\ y % 100 # 0) \/ y % 400 = 0

DaysInMonth(y, m) ==
    IF m = 2 THEN (IF IsLeapYear(y) THEN 29 ELSE 28)
    ELSE IF m \in {4, 6, 9, 11} THEN 30 ELSE 31

\* the value of a date input for a calendar date
DateString(d) == Pad(d.year, 4) \o <<"-">> \o Pad(d.month, 2) \o <<"-">> \o Pad(d.day, 2)

\* the calendar date that the date-only form "YYYY-MM-DD" names
ParseDate(dateString) ==
    [ year  |-> ParseInt(SubSeq(dateString, 1, 4)),
      month |-> ParseInt(SubSeq(dateString, 6, 7)),
      day   |-> ParseInt(SubSeq(dateString, 9, 10)) ]

PreviousDay(d) ==
    IF d.day > 1 THEN [d EXCEPT !.day = @ - 1]
    ELSE IF d.month > 1
         THEN [d EXCEPT !.month = @ - 1, !.day = DaysInMonth(d.year, d.month - 1)]
         ELSE [year |-> d.year - 1, month |-> 12, day |-> 31]

\* the host's calendar date at midnight UTC of d
LocalDate(d, utcOffset) == IF utcOffset >= 0 THEN d ELSE PreviousDay(d)

MonthNames ==
    << "January", "February", "March", "April", "May", "June", "July", "August",
       "September", "October", "November", "December" >>

\* { year: 'numeric', month: 'long', day: 'numeric' } in en-US: "November 19, 2025"
LongDate(d) ==
    <<MonthNames[d.month], " ">> \o Decimal(d.day) \o <<",", " ">> \o Decimal(d.year)

\* minutes east of UTC of the zones a host is in
HostOffsets == {0 - 480, 0 - 300, 0, 60, 330}

\* new Date(dateString).toLocaleDateString('en-US', {year, month: 'long', day}):
\* the host's zone is no argument of it, so the value is given for each zone
formatDate(dateString) ==
    [utcOffset \in HostOffsets |-> LongDate(LocalDate(ParseDate(dateString), utcOffset))]

\* a loadTemplate without the basic-template fallback
LoadedTemplateNoFallback(templateFile, pdfLib) ==
    CASE templateFile = "present" -> "file"
      [] templateFile = "corrupt" -> "corruptfile"
      [] OTHER -> "null"

\* loadTemplate: the buffer it leaves for a template file that is present,
\* missing (response not ok), unreachable (fetch throws) or corrupt
LoadedTemplate(templateFile, pdfLib) ==
    CASE templateFile = "present" -> "file"
      [] templateFile = "corrupt" -> "corruptfile"
      [] OTHER -> IF pdfLib THEN "basic" ELSE "null"

\* the field stamped by one guarded addText call of generateCertificate
StampIf(value, text) == IF Truthy(value) THEN text ELSE Unstamped

\* generateCertificate on a loaded template: the document it saves
RenderedDocument(studentName, info, template) ==
    [ template    |-> template,
      studentName |-> studentName,
      schoolName  |-> StampIf(Prop(info, "schoolName"), Prop(info, "schoolName")),
      date        |-> StampIf(Prop(info, "date"), formatDate(Prop(info, "date"))),
      jaVolunteer |-> StampIf(Prop(info, "jaVolunteer"), Prop(info, "jaVolunteer")),
      teacher     |-> StampIf(Prop(info, "teacher"), Prop(info, "teacher")) ]

\* whether generateCertificate resolves: the template parses, the document
\* engine is there, the name is a string and the engine stamps it
RenderSucceeds(studentName, template, pdfLib, failing) ==
    /\ template \in {"file", "basic"}
    /\ pdfLib
    /\ studentName # Undefined
    /\ studentName \notin failing

\* studentName.replace(/[^a-zA-Z0-9\s-_]/g, '').replace(/\s+/g, '_').toLowerCase()
\*     + '_certificate.pdf'
createSafeFilename(studentName) ==
    LET kept == SelectSeq(studentName,
                    LAMBDA c : IsLetter(c) \/ IsDigit(c) \/ IsSpace(c) \/ c \in {"-", "_"})
        under == [i \in DOMAIN CollapseSpaces(kept) |->
                     IF CollapseSpaces(kept)[i] = " " THEN "_" ELSE CollapseSpaces(kept)[i]]
    IN  ToLower(under) \o <<"_","c","e","r","t","i","f","i","c","a","t","e",".","p","d","f">>

SuccessResult(studentName, doc) ==
    [ studentName |-> studentName, filename |-> createSafeFilename(studentName),
      pdfBytes |-> doc, success |-> TRUE, error |-> "none" ]

FailureResult(studentName, error) ==
    [ studentName |-> studentName, filename |-> createSafeFilename(studentName),
      pdfBytes |-> NoDoc, success |-> FALSE, error |-> error ]

(***************************************************************************)
(* generateBulkCertificates.  A batch is one call of it: the array it was  *)
(* handed (names; aliased tells whether that array is still the session's  *)
(* studentNames), the info object, the progress callback, the loop index   *)
(* i (1-based), total, the results so far, and where the call stands:      *)
(*   "iter"   at the top of iteration i                                    *)
(*   "render" awaiting generateCertificate for names[i]                    *)
(*   "delay"  awaiting the 10 ms timer after a success                     *)
(*   "done"   resolved with certificates, "rejected" rejected.             *)
(* cbLog lists the progress callback's invocations, each with whether the  *)
(* render of its item had settled when it was invoked.                     *)
(***************************************************************************)
NewBatch(names, aliased, info, cb, owner) ==
    [ names |-> names, aliased |-> aliased, info |-> info, cb |-> cb,
      owner |-> owner, i |-> 1, total |-> Len(names), pc |-> "iter",
      certificates |-> <<>>, cbLog |-> <<>>, startNames |-> names,
      studentName |-> Undefined ]

\* studentNames[i] of the array as it is now; an iteration reads it once, into
\* its const studentName, before anything suspends
NameAt(b) == IF b.i <= Len(b.names) THEN b.names[b.i] ELSE Undefined

\* a progress event that reports the zero-based loop index as the position
ProgressEventZeroBased(b) ==
    [ current |-> b.i - 1, total |-> b.total, student |-> b.studentName,
      percentage |-> (200 * b.i + b.total) \div (2 * b.total),
      settled |-> Len(b.certificates) >= b.i ]

\* the argument of one progressCallback invocation
ProgressEvent(b) ==
    [ current |-> b.i, total |-> b.total, student |-> b.studentName,
      percentage |-> (200 * b.i + b.total) \div (2 * b.total),
      settled |-> Len(b.certificates) >= b.i ]

\* a catch block that gives up on the first failure
AbortOnFailure(b, error) == [b EXCEPT !.pc = "done"]

\* the catch block of the loop: the failure is pushed and the loop goes on;
\* createSafeFilename of a name that is no string throws out of the catch
RecordFailure(b, error) ==
    IF b.studentName = Undefined
    THEN [b EXCEPT !.pc = "rejected"]
    ELSE [b EXCEPT !.certificates = Append(@, FailureResult(b.studentName, error)),
                   !.i = @ + 1, !.pc = "iter"]

\* from the top of iteration i to the next await: the callback is invoked,
\* then generateCertificate is called; a callback that throws lands in the
\* catch block and the loop continues without suspending
RECURSIVE RunLoop(_)
RunLoop(b) ==
    IF b.pc # "iter" THEN b
    ELSE IF b.i > b.total THEN [b EXCEPT !.pc = "done"]
    ELSE LET read   == [b EXCEPT !.studentName = NameAt(b)]
             logged == IF b.cb = "none" THEN read
                       ELSE [read EXCEPT !.cbLog = Append(@, ProgressEvent(read))]
         IN  IF b.cb = "throws"
             THEN RunLoop(RecordFailure(logged, "callback threw"))
             ELSE [logged EXCEPT !.pc = "render"]

\* generateCertificate settles for names[i]
SettleRender(b, template, pdfLib, failing) ==
    IF RenderSucceeds(b.studentName, template, pdfLib, failing)
    THEN [b EXCEPT !.certificates =
                       Append(@, SuccessResult(b.studentName,
                                    RenderedDocument(b.studentName, b.info, template))),
                   !.pc = "delay"]
    ELSE RunLoop(RecordFailure(b, "Failed to generate certificate"))

\* the 10 ms timer fires
AfterDelay(b) == RunLoop([b EXCEPT !.i = @ + 1, !.pc = "iter"])

Finished(b) == b.pc \in {"done", "rejected"}

\* zip.file(name, data): an entry of that name is replaced
ZipPut(entries, name, data) ==
    IF \E k \in DOMAIN entries : entries[k].name = name
    THEN [k \in DOMAIN entries |->
             IF entries[k].name = name THEN [name |-> name, data |-> data]
             ELSE entries[k]]
    ELSE Append(entries, [name |-> name, data |-> data])

createSummaryText(certificates) ==
    [ total      |-> Len(certificates),
      successful |-> SelectSeq(certificates, LAMBDA c : c.success),
      failed     |-> SelectSeq(certificates, LAMBDA c : ~c.success) ]

SummaryName == <<"c","e","r","t","i","f","i","c","a","t","e","_",
                 "s","u","m","m","a","r","y",".","t","x","t">>

\* createZipFile: the entries of the archive
createZipFile(certificates) ==
    LET successfulCerts == SelectSeq(certificates, LAMBDA c : c.success)
        Z[k \in 0..Len(successfulCerts)] ==
            IF k = 0 THEN <<>>
            ELSE ZipPut(Z[k - 1], successfulCerts[k].filename, successfulCerts[k].pdfBytes)
    IN  ZipPut(Z[Len(successfulCerts)], SummaryName, createSummaryText(certificates))

NoOutcome == [ok |-> FALSE, names |-> <<>>, error |-> "pending"]

\* the names a batch is run over
NamePool == {AlKo, BoLi, alko}

MaxNames == 2

NameLists == UNION {[1..n -> NamePool] : n \in 0..MaxNames}

\* the files offered to the session's file input
T_AlKoBoLi == AlKo \o <<"\n">> \o BoLi

T_NoNames == <<"4","2">>

T_Table == <<"N","a","m","e",",","G","r","a","d","e","\n">> \o AlKo \o <<",","K">>

AppFiles ==
    { [ext |-> "txt",  type |-> MimeTxt,  text |-> T_AlKoBoLi],
      [ext |-> "txt",  type |-> MimeTxt,  text |-> T_NoNames],
      [ext |-> "csv",  type |-> MimeCsv,  text |-> T_Table],
      [ext |-> "docx", type |-> MimeDocx, text |-> T_AlKoBoLi],
      [ext |-> "pdf",  type |-> MimePdf,  text |-> T_AlKoBoLi] }

\* what is typed into newNameInput
NameInputs == { <<>>, alko, BoLi, <<"B","o">> }

Today == <<"2","0","2","5","-","1","1","-","1","9">>

\* the form after form.reset() and setupDateDefault()
BlankForm == [schoolName |-> <<>>, teacherName |-> <<>>, jaVolunteer |-> <<>>,
              certificateDate |-> Today]

\* the values the form inputs are set to
FormPool ==
    {BlankForm} \cup
    { [schoolName |-> <<"J","A">>, teacherName |-> t, jaVolunteer |-> v,
       certificateDate |-> Today] :
         t \in {<<>>, <<"T","e","a">>}, v \in {<<>>, <<"V","o","l">>} }

\* the certificateInfo objects a direct caller hands to the generator
InfoPool ==
    { [schoolName |-> <<"J","A">>, teacherName |-> <<"T","e","a">>,
       jaVolunteer |-> <<"V","o","l">>, date |-> Today],
      [schoolName |-> <<>>, teacherName |-> Null, jaVolunteer |-> Null,
       date |-> <<>>] }

MaxBatches == 2

MaxPending == 1

VARIABLES
    mammothLoaded,         \* window.mammoth is there
    xlsxLoaded,            \* window.XLSX is there
    pdfLibLoaded,          \* window.PDFLib is there
    templateFile,          \* assets/certificate-template.pdf: present, missing, ...
    failNames,             \* the names the document engine cannot stamp
    templateBuffer,        \* CertificateGenerator.templateBuffer
    batches,               \* the generateBulkCertificates calls not yet collected
    studentNames,          \* CertificateApp.studentNames
    generatedCertificates, \* CertificateApp.generatedCertificates
    form,                  \* the values of the certificate form's inputs
    formVisible,           \* .form-container is displayed
    previewHidden,         \* #studentPreview carries class hidden
    progressHidden,        \* #progressSection carries class hidden
    resultsHidden,         \* #resultsSection carries class hidden
    modalHidden,           \* #previewModal carries class hidden
    generateDisabled,      \* generateBtn.disabled
    previewDisabled,       \* previewBtn.disabled
    pendingParses,         \* outcomes of the parseFile calls processFile awaits
    zip,                   \* the archive built for the results on display
    lastOp,                \* the last operation of the session that completed
    pFile,                 \* the file handed to parseFile on its own
    pOutcome,              \* what that parseFile call settled with
    cLine,                 \* the line handed to extractNamesFromLine on its own
    cNames,                \* what that call returned
    tField,                \* the field handed to addText on its own
    tLength,               \* the length of the text handed to it
    tPageWidth,            \* the page width handed to it
    tX,                    \* the x it drew the text at, in hundredths of a point
    dateString,            \* the date handed to formatDate on its own
    hostOffset,            \* the zone of the host it runs on, minutes east of UTC
    formattedDate,         \* what it returned
    printCerts,            \* the certificates handed to the print manager
    printCall              \* the print manager's call in progress

envvars == <<mammothLoaded, xlsxLoaded, pdfLibLoaded, templateFile, failNames>>

genvars == <<templateBuffer, batches>>

appvars == <<studentNames, generatedCertificates, form, formVisible, previewHidden,
             progressHidden, resultsHidden, modalHidden, generateDisabled,
             previewDisabled, pendingParses, zip, lastOp>>

\* a call's state while no call of it is being followed
NotClassified == <<"unclassified">>

NotDrawn == 0 - 1

\* the calls followed on their own: parseFile, extractNamesFromLine, addText,
\* formatDate and the print manager's
dvars == <<dateString, hostOffset, formattedDate>>

mvars == <<printCerts, printCall>>

pvars == <<pFile, pOutcome, cLine, cNames, tField, tLength, tPageWidth, tX, dvars, mvars>>

vars == <<envvars, genvars, appvars, pvars>>

NoLineCall == cLine = <<>> /\ cNames = NotClassified

NoTextCall == tField = "studentName" /\ tLength = 0 /\ tPageWidth = 0 /\ tX = NotDrawn

NotFormatted == <<"unformatted">>

NoDateCall == dateString = <<>> /\ hostOffset = 0 /\ formattedDate = NotFormatted

NotAnnounced == 0 - 1

\* a print manager that has not been called
NoCall ==
    [ fn |-> "none", pc |-> "idle", i |-> 1, printedCount |-> 0, log |-> <<>>,
      merged |-> <<>>, announced |-> NotAnnounced, result |-> "none" ]

NoPrintCall == printCerts = <<>> /\ printCall = NoCall

\* the session as the constructor leaves it; disabled is the markup's
\* initial disabled attribute of the two buttons
AppInitial(disabled) ==
    /\ studentNames = <<>>
    /\ generatedCertificates = <<>>
    /\ form = BlankForm
    /\ formVisible = TRUE
    /\ previewHidden = TRUE
    /\ progressHidden = TRUE
    /\ resultsHidden = TRUE
    /\ modalHidden = TRUE
    /\ generateDisabled = disabled
    /\ previewDisabled = disabled
    /\ pendingParses = <<>>
    /\ zip = <<>>
    /\ lastOp = "init"

(***************************************************************************)
(* The parser on its own: one file, parsed once.                           *)
(***************************************************************************)
InitParse ==
    /\ mammothLoaded \in BOOLEAN
    /\ xlsxLoaded \in BOOLEAN
    /\ pdfLibLoaded = TRUE
    /\ templateFile = "present"
    /\ failNames = {}
    /\ templateBuffer = "null"
    /\ batches = <<>>
    /\ AppInitial(TRUE)
    /\ pFile \in {FileOf(f) : f \in FilePool} \cup ExampleFiles
    /\ pOutcome = NoOutcome
    /\ NoLineCall /\ NoTextCall /\ NoDateCall /\ NoPrintCall

ParseFile ==
    /\ pOutcome = NoOutcome
    /\ pOutcome' = parseFile(pFile, mammothLoaded, xlsxLoaded)
    /\ UNCHANGED <<envvars, genvars, appvars, pFile, cLine, cNames,
                   tField, tLength, tPageWidth, tX, dvars, mvars>>

NextParse == ParseFile

SpecParse == InitParse /\ [][NextParse]_vars

Parsed == pOutcome # NoOutcome

(***************************************************************************)
(* The classifier on its own: one line, classified once.  A line reaches   *)
(* extractNamesFromLine trimmed and not empty; it is built here from the   *)
(* pieces rosters are made of.                                             *)
(***************************************************************************)
LineTokens ==
    { AlKo, <<"B","o">>, <<"@">>, <<"h","t","t","p",":","/","/">>, <<"4">>,
      <<",">>, <<";">>, <<"|">>, <<" ">>, <<".">>, <<"-"," ">>, <<"1","."," ">> }

MaxTokens == 3

LineInputs ==
    {Trim(Flatten(ts)) : ts \in UNION {[1..n -> LineTokens] : n \in 1..MaxTokens}}
        \ {<<>>}

InitLine ==
    /\ mammothLoaded = TRUE
    /\ xlsxLoaded = TRUE
    /\ pdfLibLoaded = TRUE
    /\ templateFile = "present"
    /\ failNames = {}
    /\ templateBuffer = "null"
    /\ batches = <<>>
    /\ AppInitial(TRUE)
    /\ pFile = FileOf(CHOOSE f \in FilePool : TRUE)
    /\ pOutcome = NoOutcome
    /\ cLine \in LineInputs
    /\ cNames = NotClassified
    /\ NoTextCall
    /\ NoDateCall /\ NoPrintCall

ClassifyLine ==
    /\ cNames = NotClassified
    /\ cNames' = extractNamesFromLine(cLine)
    /\ UNCHANGED <<envvars, genvars, appvars, pFile, pOutcome, cLine,
                   tField, tLength, tPageWidth, tX, dvars, mvars>>

NextLine == ClassifyLine

SpecLine == InitLine /\ [][NextLine]_vars

Classified == cNames # NotClassified

(***************************************************************************)
(* addText on its own: one text of a field drawn on one page.  Widths and  *)
(* x are in hundredths of a point, which keeps size * factor and           *)
(* textWidth / 2 whole numbers.                                            *)
(***************************************************************************)
positions ==
    [ studentName |-> [x |-> 500, y |-> 480, font |-> "Helvetica-Bold", size |-> 18],
      schoolName  |-> [x |-> 500, y |-> 253, font |-> "Helvetica", size |-> 14],
      date        |-> [x |-> 500, y |-> 109, font |-> "Helvetica", size |-> 12],
      jaVolunteer |-> [x |-> 380, y |-> 182, font |-> "Times-Italic", size |-> 14],
      teacher     |-> [x |-> 645, y |-> 182, font |-> "Times-Italic", size |-> 14] ]

\* the margin addText keeps, in points
Margin == 50

\* letter size, landscape and portrait, in points
PageWidths == {792, 612}

\* the longest text drawn
MaxTextLength == 114

Max(a, b) == IF a >= b THEN a ELSE b

Min(a, b) == IF a <= b THEN a ELSE b

\* getTextWidth for a text of the given length
getTextWidth(length, font, size) ==
    LET averageCharWidth ==
            CASE font = "Helvetica-Bold" -> size * 65
              [] font = "Times-Italic"   -> size * 55
              [] OTHER                   -> size * 58
    IN  length * averageCharWidth

\* position.x - textWidth / 2
centeredX(position, textWidth) == position.x * 100 - textWidth \div 2

\* an x that is centred on the anchor and not kept within the margins
addTextUnclamped(position, textWidth, pageWidth) == centeredX(position, textWidth)

\* the x addText hands to drawText
addTextX(position, textWidth, pageWidth) ==
    Max(Margin * 100,
        Min(centeredX(position, textWidth), pageWidth * 100 - textWidth - Margin * 100))

InitText ==
    /\ mammothLoaded = TRUE
    /\ xlsxLoaded = TRUE
    /\ pdfLibLoaded = TRUE
    /\ templateFile = "present"
    /\ failNames = {}
    /\ templateBuffer = "null"
    /\ batches = <<>>
    /\ AppInitial(TRUE)
    /\ pFile = FileOf(CHOOSE f \in FilePool : TRUE)
    /\ pOutcome = NoOutcome
    /\ NoLineCall
    /\ tField \in DOMAIN positions
    /\ tLength \in 0..MaxTextLength
    /\ tPageWidth \in PageWidths
    /\ tX = NotDrawn
    /\ NoDateCall /\ NoPrintCall

\* the estimated width of the text being drawn
TextWidth == getTextWidth(tLength, positions[tField].font, positions[tField].size)

AddText ==
    /\ tX = NotDrawn
    /\ tX' = addTextX(positions[tField], TextWidth, tPageWidth)
    /\ UNCHANGED <<envvars, genvars, appvars, pFile, pOutcome, cLine, cNames,
                   tField, tLength, tPageWidth, dvars, mvars>>

NextText == AddText

SpecText == InitText /\ [][NextText]_vars

Drawn == tX # NotDrawn

(***************************************************************************)
(* formatDate on its own: one date of the date input formatted once on a   *)
(* host in one zone.                                                       *)
(***************************************************************************)
CalendarDates ==
    {[year |-> y, month |-> m, day |-> d] :
        y \in {2024, 2025}, m \in 1..12, d \in 1..31} \
    {x \in [year : {2024, 2025}, month : 1..12, day : 1..31] :
        x.day > DaysInMonth(x.year, x.month)}

InitDate ==
    /\ mammothLoaded = TRUE
    /\ xlsxLoaded = TRUE
    /\ pdfLibLoaded = TRUE
    /\ templateFile = "present"
    /\ failNames = {}
    /\ templateBuffer = "null"
    /\ batches = <<>>
    /\ AppInitial(TRUE)
    /\ pFile = FileOf(CHOOSE f \in FilePool : TRUE)
    /\ pOutcome = NoOutcome
    /\ NoLineCall /\ NoTextCall
    /\ dateString \in {DateString(d) : d \in CalendarDates}
    /\ hostOffset \in HostOffsets
    /\ formattedDate = NotFormatted
    /\ NoPrintCall

FormatDate ==
    /\ formattedDate = NotFormatted
    /\ formattedDate' = formatDate(dateString)[hostOffset]
    /\ UNCHANGED <<envvars, genvars, appvars, pFile, pOutcome, cLine, cNames,
                   tField, tLength, tPageWidth, tX, dateString, hostOffset, mvars>>

NextDate == FormatDate

SpecDate == InitDate /\ [][NextDate]_vars

Formatted == formattedDate # NotFormatted

(***************************************************************************)
(* PrintManager on its own: one call of printAllIndividually or of         *)
(* printAllCombined over a list of certificates.  A certificate is "pdf"   *)
(* when PDFDocument.load reads its pdfBytes and "unreadable" when it       *)
(* throws (a failed result carries no pdfBytes).  pc is where the call     *)
(* is suspended:                                                           *)
(*   "frame"  printCertificate awaits the iframe's load or error event     *)
(*   "timer"  onload has set the 1000 ms timer that calls print()          *)
(*   "delay"  printAllIndividually awaits its 2000 ms timer                *)
(*   "merge"  createCombinedPdf awaits the 10 ms timer after certificate i *)
(*   "stuck"  the promise of printCertificate can no longer settle         *)
(*   "returned" the call has returned result.                              *)
(* log lists the attempts of printAllIndividually: the position, whether   *)
(* the print was sent, and the answer to the confirm after a failure.      *)
(***************************************************************************)
MaxCerts == 2

CertLists == UNION {[1..n -> {"pdf", "unreadable"}] : n \in 0..MaxCerts}

\* the end of printAllIndividually: return printedCount > 0
ReturnPrinted(c) ==
    [c EXCEPT !.pc = "returned",
              !.result = IF c.printedCount > 0 THEN "true" ELSE "false"]

\* the top of the loop of printAllIndividually: printCertificate is called
\* for certificate i, or the loop is over
Iterate(c, total) ==
    IF c.i > total THEN ReturnPrinted(c) ELSE [c EXCEPT !.pc = "frame"]

\* printAllIndividually from its first confirm on
printAllIndividually(c, total, proceed) ==
    IF ~proceed
    THEN [c EXCEPT !.fn = "individually", !.pc = "returned", !.result = "false"]
    ELSE Iterate([c EXCEPT !.fn = "individually", !.i = 1, !.printedCount = 0], total)

\* await printCertificate resolved: printedCount++ and the 2000 ms delay
AfterPrinted(c) ==
    [c EXCEPT !.printedCount = @ + 1,
              !.log = Append(@, [i |-> c.i, sent |-> TRUE, answer |-> "none"]),
              !.pc = "delay"]

\* a catch block that goes on to the next certificate whatever the answer
AfterFailureGoesOn(c, total, answer) ==
    Iterate([c EXCEPT !.log = Append(@, [i |-> c.i, sent |-> FALSE, answer |-> answer]),
                      !.i = @ + 1], total)

\* the catch block of the loop: confirm(continueMessage), break when declined
AfterFailure(c, total, answer) ==
    LET logged == [c EXCEPT !.log = Append(@, [i |-> c.i, sent |-> FALSE,
                                                answer |-> answer])]
    IN  IF answer = "continue"
        THEN Iterate([logged EXCEPT !.i = @ + 1], total)
        ELSE ReturnPrinted(logged)

\* the catch block of printAllCombined: confirm the fallback, then
\* printAllIndividually with its own confirm
CombinedFailed(c, total, fallback, proceed) ==
    IF fallback THEN printAllIndividually(c, total, proceed)
    ELSE [c EXCEPT !.pc = "returned", !.result = "false"]

\* createCombinedPdf at the top of its loop: PDFDocument.load of certificate
\* i, whose failure is logged and skipped, then the 10 ms delay; after the
\* loop printAllCombined announces certificates.length and prints the document
MergeFrom(c, certs) ==
    IF c.i > Len(certs)
    THEN [c EXCEPT !.announced = Len(certs), !.pc = "frame"]
    ELSE [c EXCEPT !.merged = IF certs[c.i] = "pdf" THEN Append(@, c.i) ELSE @,
                   !.pc = "merge"]

InitPrint ==
    /\ mammothLoaded = TRUE
    /\ xlsxLoaded = TRUE
    /\ pdfLibLoaded \in BOOLEAN
    /\ templateFile = "present"
    /\ failNames = {}
    /\ templateBuffer = "null"
    /\ batches = <<>>
    /\ AppInitial(TRUE)
    /\ pFile = FileOf(CHOOSE f \in FilePool : TRUE)
    /\ pOutcome = NoOutcome
    /\ NoLineCall /\ NoTextCall /\ NoDateCall
    /\ printCerts \in CertLists
    /\ printCall = NoCall

PrintStep(c) ==
    /\ printCall' = c
    /\ UNCHANGED <<envvars, genvars, appvars, pFile, pOutcome, cLine, cNames,
                   tField, tLength, tPageWidth, tX, dvars, printCerts>>

CallPrintAllIndividually ==
    /\ printCall.fn = "none"
    /\ \E proceed \in BOOLEAN :
          PrintStep(printAllIndividually(printCall, Len(printCerts), proceed))

CallPrintAllCombined ==
    /\ printCall.fn = "none"
    /\ IF pdfLibLoaded
       THEN PrintStep(MergeFrom([printCall EXCEPT !.fn = "combined"], printCerts))
       ELSE \E fallback, proceed \in BOOLEAN :
               PrintStep(CombinedFailed([printCall EXCEPT !.fn = "combined"],
                                        Len(printCerts), fallback, proceed))

\* the 10 ms timer of createCombinedPdf fires
MergeDelayElapses ==
    /\ printCall.pc = "merge"
    /\ PrintStep(MergeFrom([printCall EXCEPT !.i = @ + 1], printCerts))

\* iframe.onload: the 1000 ms timer is set
FrameLoads ==
    /\ printCall.pc = "frame"
    /\ PrintStep([printCall EXCEPT !.pc = "timer"])

\* iframe.onerror: the promise rejects
FrameErrors ==
    /\ printCall.pc = "frame"
    /\ IF printCall.fn = "individually"
       THEN \E answer \in {"continue", "stop"} :
               PrintStep(AfterFailure(printCall, Len(printCerts), answer))
       ELSE \E fallback, proceed \in BOOLEAN :
               PrintStep(CombinedFailed(printCall, Len(printCerts), fallback, proceed))

\* the 1000 ms timer fires and calls print(); when print() throws, the
\* exception leaves the timer callback and neither resolve nor reject is called
PrintTimerFires ==
    /\ printCall.pc = "timer"
    /\ \E throws \in BOOLEAN :
          IF throws THEN PrintStep([printCall EXCEPT !.pc = "stuck"])
          ELSE IF printCall.fn = "individually"
               THEN PrintStep(AfterPrinted(printCall))
               ELSE PrintStep([printCall EXCEPT !.pc = "returned", !.result = "true"])

\* the 2000 ms timer of printAllIndividually fires
PrintDelayElapses ==
    /\ printCall.pc = "delay"
    /\ PrintStep(Iterate([printCall EXCEPT !.i = @ + 1], Len(printCerts)))

NextPrint ==
    \/ CallPrintAllIndividually
    \/ CallPrintAllCombined
    \/ MergeDelayElapses
    \/ FrameLoads
    \/ FrameErrors
    \/ PrintTimerFires
    \/ PrintDelayElapses

SpecPrint == InitPrint /\ [][NextPrint]_vars

\* the iframe fires load or error, and every timer that was set fires
SpecPrintFair == SpecPrint /\ WF_vars(NextPrint)

(***************************************************************************)
(* The steps of a batch.  A batch of the session is collected when it      *)
(* settles: generateCertificates stores the results, hides the progress    *)
(* section and shows the results; handleFormSubmit's catch only hides the  *)
(* progress section.  A direct caller's batch stays for inspection.        *)
(***************************************************************************)
\* a splice without its count: everything from position k on is removed
RemoveFrom(seq, k) == SubSeq(seq, 1, k - 1)

\* seq.splice(k - 1, 1)
RemoveAt(seq, k) == SubSeq(seq, 1, k - 1) \o SubSeq(seq, k + 1, Len(seq))

\* loadTemplate as generateCertificate awaits it when the buffer is not set
EnsureTemplate == IF templateBuffer = "null"
                  THEN LoadedTemplate(templateFile, pdfLibLoaded)
                  ELSE templateBuffer

\* a render that stamps the shared template itself
TemplateStampedInPlace(template) ==
    IF template \in {"file", "basic"} THEN "stamped" ELSE template

\* templateBuffer after a render: PDFDocument.load parses the buffer into a
\* document of its own, and generateCertificate assigns nothing to the buffer
TemplateAfterRender(template) == template

\* the batch at position k has become nb
Settled(k, nb) ==
    IF nb.owner = "app" /\ Finished(nb)
    THEN /\ batches' = RemoveAt(batches, k)
         /\ progressHidden' = TRUE
         /\ IF nb.pc = "done"
            THEN /\ generatedCertificates' = nb.certificates
                 /\ resultsHidden' = FALSE
                 /\ UNCHANGED lastOp
            ELSE /\ lastOp' = "generateError"
                 /\ UNCHANGED <<generatedCertificates, resultsHidden>>
         /\ UNCHANGED <<studentNames, form, formVisible, previewHidden, modalHidden,
                        generateDisabled, previewDisabled, pendingParses, zip>>
    ELSE /\ batches' = [batches EXCEPT ![k] = nb]
         /\ UNCHANGED appvars

\* init()'s loadTemplate call completes
LoadTemplate ==
    /\ templateBuffer = "null"
    /\ LoadedTemplate(templateFile, pdfLibLoaded) # "null"
    /\ templateBuffer' = LoadedTemplate(templateFile, pdfLibLoaded)
    /\ UNCHANGED <<envvars, batches, appvars, pvars>>

\* a render that reads the form's inputs again instead of the info it was handed
RenderSettlesFromForm(k) ==
    /\ batches[k].pc = "render"
    /\ templateBuffer' = TemplateAfterRender(EnsureTemplate)
    /\ Settled(k, SettleRender(
            [batches[k] EXCEPT !.info =
                [ schoolName  |-> Trim(form.schoolName),
                  teacherName |-> IF Trim(form.teacherName) = <<>> THEN Null
                                  ELSE Trim(form.teacherName),
                  jaVolunteer |-> IF Trim(form.jaVolunteer) = <<>> THEN Null
                                  ELSE Trim(form.jaVolunteer),
                  date        |-> form.certificateDate ]],
            EnsureTemplate, pdfLibLoaded, failNames))
    /\ UNCHANGED <<envvars, pvars>>

\* the generateCertificate call of batch k settles
RenderSettles(k) ==
    /\ batches[k].pc = "render"
    /\ templateBuffer' = TemplateAfterRender(EnsureTemplate)
    /\ Settled(k, SettleRender(batches[k], EnsureTemplate, pdfLibLoaded, failNames))
    /\ UNCHANGED <<envvars, pvars>>

\* the 10 ms timer of batch k fires
DelayElapses(k) ==
    /\ batches[k].pc = "delay"
    /\ Settled(k, AfterDelay(batches[k]))
    /\ UNCHANGED <<envvars, templateBuffer, pvars>>

(***************************************************************************)
(* The generator on its own: one direct call of generateBulkCertificates.  *)
(***************************************************************************)
InitGen ==
    /\ mammothLoaded = TRUE
    /\ xlsxLoaded = TRUE
    /\ pdfLibLoaded \in BOOLEAN
    /\ templateFile \in {"present", "missing", "unreachable", "corrupt"}
    /\ failNames \in SUBSET NamePool
    /\ templateBuffer = "null"
    /\ batches = <<>>
    /\ AppInitial(TRUE)
    /\ pFile = FileOf(CHOOSE f \in FilePool : TRUE)
    /\ pOutcome = NoOutcome
    /\ NoLineCall /\ NoTextCall /\ NoDateCall /\ NoPrintCall

CallBulk ==
    /\ batches = <<>>
    /\ \E names \in NameLists, info \in InfoPool, cb \in {"none", "notify", "throws"} :
          batches' = <<RunLoop(NewBatch(names, FALSE, info, cb, "caller"))>>
    /\ UNCHANGED <<envvars, templateBuffer, appvars, pvars>>

NextGen ==
    \/ CallBulk
    \/ LoadTemplate
    \/ \E k \in DOMAIN batches : RenderSettles(k)
    \/ \E k \in DOMAIN batches : DelayElapses(k)

SpecGen == InitGen /\ [][NextGen]_vars

(***************************************************************************)
(* CertificateApp: the session.  The form's controls (file input, name     *)
(* list with its add and remove buttons, inputs, preview and generate      *)
(* buttons) live in .form-container and the reset and download buttons in  *)
(* #resultsSection, so an event reaches its handler only while the section *)
(* that holds its control is displayed.                                    *)
(***************************************************************************)
\* showProgress leaves the form displayed
FormLeftDisplayed == TRUE

\* the display of .form-container after showProgress: style.display = 'none'
FormDisplayedAfterShowProgress == FALSE

\* a button state that never disables
NeverDisabled(names) == FALSE

\* updateButtonStates: disabled = !hasNames
updateButtonStates(names) == ~(Len(names) > 0)

\* value.trim() || null
TrimOrNull(value) == IF Trim(value) = <<>> THEN Null ELSE Trim(value)

getCertificateInfo(f) ==
    [ schoolName  |-> Trim(f.schoolName),
      teacherName |-> TrimOrNull(f.teacherName),
      jaVolunteer |-> TrimOrNull(f.jaVolunteer),
      date        |-> f.certificateDate ]

\* /^[a-zA-Z\s\-'\.]{2,}$/ and at least two words and at most 100 characters
appIsValidName(name) ==
    /\ Len(name) >= 2
    /\ \A i \in DOMAIN name : IsLetter(name[i]) \/ IsSpace(name[i]) \/ name[i] \in {"-", "'", "."}
    /\ Len(SplitWords(name)) >= 2
    /\ Len(name) <= 100

\* the array behind this.studentNames is replaced: no batch shares it any more
Unshared(bs) == [k \in DOMAIN bs |-> [bs[k] EXCEPT !.aliased = FALSE]]

\* the array behind this.studentNames is changed in place to names
Mutated(bs, names) ==
    [k \in DOMAIN bs |-> IF bs[k].aliased THEN [bs[k] EXCEPT !.names = names] ELSE bs[k]]

\* the form's inputs are set
FormInput(f) ==
    /\ form' = f
    /\ UNCHANGED <<envvars, genvars, pvars, studentNames, generatedCertificates,
                   formVisible, previewHidden, progressHidden, resultsHidden,
                   modalHidden, generateDisabled, previewDisabled, pendingParses,
                   zip, lastOp>>

\* the same while the form is on display
EditForm(f) == formVisible /\ FormInput(f)

\* handleFileSelect / handleFileDrop: processFile up to its await of parseFile
SelectFile(f) ==
    /\ formVisible
    /\ Len(pendingParses) < MaxPending
    /\ pendingParses' = Append(pendingParses, parseFile(f, mammothLoaded, xlsxLoaded))
    /\ UNCHANGED <<envvars, genvars, pvars, studentNames, generatedCertificates, form,
                   formVisible, previewHidden, progressHidden, resultsHidden,
                   modalHidden, generateDisabled, previewDisabled, zip, lastOp>>

\* a processFile whose catch block empties the name list
ParseCompletesClearsOnError ==
    /\ pendingParses # <<>>
    /\ pendingParses' = Tail(pendingParses)
    /\ LET o == Head(pendingParses)
       IN  IF o.ok
           THEN /\ studentNames' = o.names
                /\ batches' = Unshared(batches)
                /\ previewHidden' = FALSE
                /\ generateDisabled' = updateButtonStates(o.names)
                /\ previewDisabled' = updateButtonStates(o.names)
                /\ lastOp' = IF Len(o.names) = 0 THEN "loadEmpty" ELSE "loadNames"
           ELSE /\ lastOp' = "loadError"
                /\ studentNames' = <<>>
                /\ UNCHANGED <<batches, previewHidden, generateDisabled, previewDisabled>>
    /\ UNCHANGED <<envvars, templateBuffer, pvars, generatedCertificates, form,
                   formVisible, progressHidden, resultsHidden, modalHidden, zip>>

\* processFile from the settlement of parseFile on
ParseCompletes ==
    /\ pendingParses # <<>>
    /\ pendingParses' = Tail(pendingParses)
    /\ LET o == Head(pendingParses)
       IN  IF o.ok
           THEN /\ studentNames' = o.names
                /\ batches' = Unshared(batches)
                /\ previewHidden' = FALSE
                /\ generateDisabled' = updateButtonStates(o.names)
                /\ previewDisabled' = updateButtonStates(o.names)
                /\ lastOp' = IF Len(o.names) = 0 THEN "loadEmpty" ELSE "loadNames"
           ELSE /\ lastOp' = "loadError"
                /\ UNCHANGED <<studentNames, batches, previewHidden,
                               generateDisabled, previewDisabled>>
    /\ UNCHANGED <<envvars, templateBuffer, pvars, generatedCertificates, form,
                   formVisible, progressHidden, resultsHidden, modalHidden, zip>>

\* a removeName that splices without rendering the list again
removeNameNoRender(index) ==
    /\ index \in DOMAIN studentNames
    /\ studentNames' = RemoveAt(studentNames, index)
    /\ batches' = Mutated(batches, RemoveAt(studentNames, index))
    /\ lastOp' = "removeName"
    /\ UNCHANGED <<envvars, templateBuffer, pvars, generatedCertificates, form,
                   formVisible, previewHidden, progressHidden, resultsHidden,
                   modalHidden, pendingParses, zip, generateDisabled, previewDisabled>>

\* removeName(index - 1): the entry at index is spliced out; an index that
\* is no position of the list is ignored
removeName(index) ==
    /\ IF index \in DOMAIN studentNames
       THEN /\ studentNames' = RemoveAt(studentNames, index)
            /\ batches' = Mutated(batches, RemoveAt(studentNames, index))
            /\ generateDisabled' = updateButtonStates(RemoveAt(studentNames, index))
            /\ previewDisabled' = updateButtonStates(RemoveAt(studentNames, index))
            /\ lastOp' = "removeName"
       ELSE /\ lastOp' = "removeIgnored"
            /\ UNCHANGED <<studentNames, batches, generateDisabled, previewDisabled>>
    /\ UNCHANGED <<envvars, templateBuffer, pvars, generatedCertificates, form,
                   formVisible, previewHidden, progressHidden, resultsHidden,
                   modalHidden, pendingParses, zip>>

\* the same from a remove button: renderStudentList makes one button for
\* each entry of the list on display
RemoveName(index) ==
    formVisible /\ ~previewHidden /\ index \in DOMAIN studentNames /\ removeName(index)

\* addName with input typed into newNameInput
addName(input) ==
    /\ Len(studentNames) < MaxNames
    /\ LET newName == Trim(input)
       IN  IF newName = <<>> \/ newName \in Range(studentNames) \/ ~appIsValidName(newName)
           THEN /\ lastOp' = "addRefused"
                /\ UNCHANGED <<studentNames, batches, generateDisabled, previewDisabled>>
           ELSE /\ studentNames' = Append(studentNames, newName)
                /\ batches' = Mutated(batches, Append(studentNames, newName))
                /\ generateDisabled' = updateButtonStates(Append(studentNames, newName))
                /\ previewDisabled' = updateButtonStates(Append(studentNames, newName))
                /\ lastOp' = "addName"
    /\ UNCHANGED <<envvars, templateBuffer, pvars, generatedCertificates, form,
                   formVisible, previewHidden, progressHidden, resultsHidden,
                   modalHidden, pendingParses, zip>>

\* the same from the add button, while the name list is on display
AddName(input) == formVisible /\ ~previewHidden /\ addName(input)

\* showPreview, from the preview button
ShowPreview ==
    /\ formVisible /\ ~previewDisabled
    /\ IF Len(studentNames) = 0
       THEN lastOp' = "previewRefused" /\ UNCHANGED modalHidden
       ELSE lastOp' = "preview" /\ modalHidden' = FALSE
    /\ UNCHANGED <<envvars, genvars, pvars, studentNames, generatedCertificates, form,
                   formVisible, previewHidden, progressHidden, resultsHidden,
                   generateDisabled, previewDisabled, pendingParses, zip>>

closeModal ==
    /\ ~modalHidden
    /\ modalHidden' = TRUE
    /\ UNCHANGED <<envvars, genvars, pvars, studentNames, generatedCertificates, form,
                   formVisible, previewHidden, progressHidden, resultsHidden,
                   generateDisabled, previewDisabled, pendingParses, zip, lastOp>>

\* handleFormSubmit, from the form's submit event, up to the first await of
\* generateBulkCertificates
handleFormSubmit ==
    /\ formVisible /\ ~generateDisabled
    /\ Len(batches) < MaxBatches
    /\ IF Len(studentNames) = 0
       THEN /\ lastOp' = "submitRefused"
            /\ UNCHANGED <<batches, progressHidden, formVisible>>
       ELSE /\ progressHidden' = FALSE
            /\ formVisible' = FormDisplayedAfterShowProgress
            /\ batches' = Append(batches,
                  RunLoop(NewBatch(studentNames, TRUE, getCertificateInfo(form),
                                   "notify", "app")))
            /\ lastOp' = "submit"
    /\ UNCHANGED <<envvars, templateBuffer, pvars, studentNames, generatedCertificates,
                   form, previewHidden, resultsHidden, modalHidden, generateDisabled,
                   previewDisabled, pendingParses, zip>>

\* downloadAllCertificates, from the download button of the results
downloadAllCertificates ==
    /\ ~resultsHidden
    /\ zip' = createZipFile(generatedCertificates)
    /\ UNCHANGED <<envvars, genvars, pvars, studentNames, generatedCertificates, form,
                   formVisible, previewHidden, progressHidden, resultsHidden,
                   modalHidden, generateDisabled, previewDisabled, pendingParses, lastOp>>

\* resetApplication, from the reset button of the results; the archive of
\* the results goes with them
resetApplication ==
    /\ ~resultsHidden
    /\ studentNames' = <<>>
    /\ generatedCertificates' = <<>>
    /\ batches' = Unshared(batches)
    /\ form' = BlankForm
    /\ previewHidden' = TRUE
    /\ progressHidden' = TRUE
    /\ resultsHidden' = TRUE
    /\ formVisible' = TRUE
    /\ generateDisabled' = updateButtonStates(<<>>)
    /\ previewDisabled' = updateButtonStates(<<>>)
    /\ zip' = <<>>
    /\ lastOp' = "reset"
    /\ UNCHANGED <<envvars, templateBuffer, pvars, modalHidden, pendingParses>>

Init ==
    /\ mammothLoaded \in BOOLEAN
    /\ xlsxLoaded = TRUE
    /\ pdfLibLoaded \in BOOLEAN
    /\ templateFile \in {"present", "missing", "unreachable", "corrupt"}
    /\ failNames \in SUBSET {BoLi}
    /\ templateBuffer = "null"
    /\ batches = <<>>
    /\ \E disabled \in BOOLEAN : AppInitial(disabled)
    /\ pFile = FileOf(CHOOSE f \in FilePool : TRUE)
    /\ pOutcome = NoOutcome
    /\ NoLineCall /\ NoTextCall /\ NoDateCall /\ NoPrintCall

Next ==
    \/ LoadTemplate
    \/ \E f \in FormPool : EditForm(f)
    \/ \E f \in AppFiles : SelectFile(f)
    \/ ParseCompletes
    \/ \E index \in 1..MaxNames : RemoveName(index)
    \/ \E input \in NameInputs : AddName(input)
    \/ ShowPreview
    \/ closeModal
    \/ handleFormSubmit
    \/ \E k \in DOMAIN batches : RenderSettles(k)
    \/ \E k \in DOMAIN batches : DelayElapses(k)
    \/ downloadAllCertificates
    \/ resetApplication

Spec == Init /\ [][Next]_vars

(***************************************************************************)
(* The session's name list: file loads, manual additions and removals,     *)
(* and the batch that leads to the reset button, in an environment where   *)
(* every library and the template are there.                               *)
(***************************************************************************)
\* what is typed into newNameInput, punctuation included
HandInputs == NameInputs \cup { <<"A","l"," ","K","o",".">>, <<"-"," ","-">> }

InitSession ==
    /\ mammothLoaded = TRUE
    /\ xlsxLoaded = TRUE
    /\ pdfLibLoaded = TRUE
    /\ templateFile = "present"
    /\ failNames = {}
    /\ templateBuffer = "null"
    /\ batches = <<>>
    /\ \E disabled \in BOOLEAN : AppInitial(disabled)
    /\ pFile = FileOf(CHOOSE f \in FilePool : TRUE)
    /\ pOutcome = NoOutcome
    /\ NoLineCall /\ NoTextCall /\ NoDateCall /\ NoPrintCall

NextSession ==
    \/ \E f \in AppFiles : SelectFile(f)
    \/ ParseCompletes
    \/ \E index \in 1..MaxNames : RemoveName(index)
    \/ \E input \in HandInputs : AddName(input)
    \/ handleFormSubmit
    \/ \E k \in DOMAIN batches : RenderSettles(k)
    \/ \E k \in DOMAIN batches : DelayElapses(k)
    \/ resetApplication

SpecSession == InitSession /\ [][NextSession]_vars

(***************************************************************************)
(* The session with the name list and the form's inputs operable while a   *)
(* batch runs: removeName, addName and the inputs take effect at any       *)
(* suspend point, whatever section is on display.                          *)
(***************************************************************************)
NextOperable ==
    \/ \E f \in {g \in AppFiles : g.ext = "txt"} : SelectFile(f)
    \/ ParseCompletes
    \/ \E index \in 1..MaxNames : removeName(index)
    \/ \E input \in {alko, BoLi} : addName(input)
    \/ \E f \in {g \in FormPool : (g.teacherName = <<>>) = (g.jaVolunteer = <<>>)} :
          FormInput(f)
    \/ handleFormSubmit
    \/ \E k \in DOMAIN batches : RenderSettles(k)
    \/ \E k \in DOMAIN batches : DelayElapses(k)
    \/ resetApplication

SpecOperable == InitSession /\ [][NextOperable]_vars

(***************************************************************************)
(* C1.  generateBulkCertificates over names n[1..k] resolves with exactly  *)
(* k results, result i carrying name n[i] and tagged success (with bytes   *)
(* and filename) or failure (with an error reason), whichever renders      *)
(* fail: a failing render never aborts, shortens or reorders the list.     *)
(***************************************************************************)
WellTagged(c, name) ==
    /\ c.studentName = name
    /\ c.filename = createSafeFilename(name)
    /\ IF c.success THEN c.pdfBytes # NoDoc /\ c.error = "none"
                    ELSE c.pdfBytes = NoDoc /\ c.error # "none"

C1_OneResultPerNameInOrder ==
    \A k \in DOMAIN batches :
        LET b == batches[k]
        IN  /\ b.pc # "rejected"
            /\ Len(b.certificates) <= Len(b.names)
            /\ \A j \in DOMAIN b.certificates : WellTagged(b.certificates[j], b.names[j])
            /\ b.pc = "done" => Len(b.certificates) = Len(b.names)

\* a resolved batch whose first render failed and whose second succeeded
C1_Witness ==
    \E k \in DOMAIN batches :
        /\ batches[k].pc = "done"
        /\ batches[k].cb # "throws"
        /\ Len(batches[k].certificates) >= 2
        /\ ~batches[k].certificates[1].success
        /\ batches[k].certificates[2].success

(***************************************************************************)
(* C3.  The progress callback is a notification channel only: whatever the *)
(* callback does, also when it throws, each name of a resolved batch has   *)
(* the success or failure its render yields with no callback.              *)
(***************************************************************************)
C3_CallbackNeverChangesOutcome ==
    \A k \in DOMAIN batches :
        batches[k].pc = "done" =>
            \A j \in DOMAIN batches[k].certificates :
                batches[k].certificates[j].success =
                    RenderSucceeds(batches[k].names[j], EnsureTemplate,
                                   pdfLibLoaded, failNames)

\* the same statement for the callbacks that return normally
C3_QuietCallbackKeepsOutcome ==
    \A k \in DOMAIN batches :
        (batches[k].pc = "done" /\ batches[k].cb # "throws") =>
            \A j \in DOMAIN batches[k].certificates :
                batches[k].certificates[j].success =
                    RenderSucceeds(batches[k].names[j], EnsureTemplate,
                                   pdfLibLoaded, failNames)

(***************************************************************************)
(* C4.  As claimed: the progress callback is invoked exactly once per      *)
(* name, after that name's render has finished, with the item's position,  *)
(* the total and the name, positions increasing from first to last.        *)
(***************************************************************************)
CallbackArguments(b) ==
    \A j \in DOMAIN b.cbLog :
        /\ b.cbLog[j].current = j
        /\ b.cbLog[j].total = Len(b.names)
        /\ b.cbLog[j].student = b.names[j]

OncePerStartedName(b) ==
    /\ b.pc \in {"render", "delay"} => Len(b.cbLog) = b.i
    /\ b.pc = "done" => Len(b.cbLog) = Len(b.names)

C4_CallbackAfterRender ==
    \A k \in DOMAIN batches :
        batches[k].cb # "none" =>
            /\ CallbackArguments(batches[k])
            /\ OncePerStartedName(batches[k])
            /\ \A j \in DOMAIN batches[k].cbLog : batches[k].cbLog[j].settled

(***************************************************************************)
(* C4, amended.  The progress callback is invoked exactly once per name,   *)
(* before that name's render starts, with the item's position, the total   *)
(* and the name, positions increasing from first to last.                  *)
(***************************************************************************)
C4_CallbackBeforeRender ==
    \A k \in DOMAIN batches :
        batches[k].cb # "none" =>
            /\ CallbackArguments(batches[k])
            /\ OncePerStartedName(batches[k])
            /\ \A j \in DOMAIN batches[k].cbLog : ~batches[k].cbLog[j].settled

\* a resolved batch of two names whose callback was invoked for both
C4_Witness ==
    \E k \in DOMAIN batches :
        /\ batches[k].pc = "done"
        /\ batches[k].cb = "notify"
        /\ Len(batches[k].cbLog) = 2
        /\ batches[k].certificates[1].success

(***************************************************************************)
(* C8.  For every input kind that needs a decoding collaborator (.docx,    *)
(* .doc, .xlsx, .xls, .pdf, image types), parseFile with that collaborator *)
(* unavailable fails with an error and never returns a name list obtained  *)
(* by reading the file some other way.  The web application has no PDF and *)
(* no OCR collaborator at all.                                             *)
(***************************************************************************)
NeedsCollaborator(file) == file.ext \in {"docx", "doc", "xlsx", "xls", "pdf", "png"}

CollaboratorAvailable(file) ==
    CASE file.ext \in {"docx", "doc"} -> mammothLoaded
      [] file.ext \in {"xlsx", "xls"} -> xlsxLoaded
      [] OTHER                        -> FALSE

C8_UnavailableCollaboratorFails ==
    (Parsed /\ NeedsCollaborator(pFile) /\ ~CollaboratorAvailable(pFile))
        => ~pOutcome.ok

(***************************************************************************)
(* C10.  For every input text and both structural hints (lines for .txt,   *)
(* table for .csv) the returned list is the sequence of distinct           *)
(* normalized valid names in order of first occurrence in the source: no   *)
(* normalized text appears twice, every candidate of the source is         *)
(* present, and the entries stand in the order of their first occurrences. *)
(***************************************************************************)
\* the normalized valid candidates in source order, duplicates included
CandidateStream(file) ==
    IF detectFileType(file) \in {MimeCsv, MimeCsvAlt}
         /\ CellNames(TextLines(file.text)) # <<>>
    THEN CellNames(TextLines(file.text))
    ELSE CleanedValid(LineCandidates(file.text))

IsTextOrTable(file) == detectFileType(file) \in {MimeTxt, MimeCsv, MimeCsvAlt}

C10_DistinctInFirstSeenOrder ==
    (Parsed /\ IsTextOrTable(pFile)) =>
        LET res    == pOutcome.names
            stream == CandidateStream(pFile)
        IN  /\ pOutcome.ok
            /\ \A i, j \in DOMAIN res :
                   i # j => cleanName(res[i]) # cleanName(res[j])
            /\ Range(res) = Range(stream)
            /\ \A i, j \in DOMAIN res :
                   i < j => IndexOf(stream, res[i]) < IndexOf(stream, res[j])

\* a parsed text whose source repeats a name after a different one
C10_Witness ==
    /\ Parsed
    /\ IsTextOrTable(pFile)
    /\ \E i, j, k \in DOMAIN CandidateStream(pFile) :
          /\ i < j /\ j < k
          /\ CandidateStream(pFile)[i] = CandidateStream(pFile)[k]
          /\ CandidateStream(pFile)[i] # CandidateStream(pFile)[j]
    /\ Len(pOutcome.names) = 2

(***************************************************************************)
(* C2.  At every instant at most one generateCertificate call is in        *)
(* flight: a batch awaits the render of one name at a time, and no         *)
(* sequence of UI events starts a second batch while one is running.       *)
(***************************************************************************)
RendersInFlight == {k \in DOMAIN batches : batches[k].pc = "render"}

C2_OneRenderInFlight ==
    /\ Cardinality(RendersInFlight) <= 1
    /\ Len(batches) <= 1
    /\ \A k \in DOMAIN batches :
          batches[k].pc = "render" => Len(batches[k].certificates) = batches[k].i - 1

\* a batch awaiting the render of its second name, the first having settled
C2_Witness ==
    \E k \in DOMAIN batches :
        /\ batches[k].owner = "app"
        /\ batches[k].pc = "render"
        /\ batches[k].i = 2
        /\ Len(batches[k].certificates) = 1

(***************************************************************************)
(* C5.  The archive built by createZipFile holds one certificate entry for *)
(* every successful result: two successes deriving the same filename are   *)
(* both kept, none overwritten or dropped.                                 *)
(***************************************************************************)
CertificateEntries(entries) ==
    SelectSeq(entries, LAMBDA e : e.name # SummaryName)

C5_ArchiveKeepsEverySuccess ==
    zip # <<>> =>
        /\ Len(CertificateEntries(zip)) =
               Len(SelectSeq(generatedCertificates, LAMBDA c : c.success))
        /\ \A j \in DOMAIN generatedCertificates :
              generatedCertificates[j].success =>
                  \E e \in Range(zip) : e.data = generatedCertificates[j].pdfBytes

(***************************************************************************)
(* C6.  A batch started from the form stamps every non-empty shared field  *)
(* on every certificate: a non-empty teacher name and a non-empty JA       *)
(* volunteer name are both stamped, and a signer is skipped only when its  *)
(* input is empty.                                                         *)
(***************************************************************************)
SignerStamped(input, stamped) ==
    IF Trim(input) = <<>> THEN stamped = Unstamped ELSE stamped = Trim(input)

C6_FormSignersStamped ==
    \A j \in DOMAIN generatedCertificates :
        generatedCertificates[j].success =>
            /\ SignerStamped(form.teacherName, generatedCertificates[j].pdfBytes.teacher)
            /\ SignerStamped(form.jaVolunteer, generatedCertificates[j].pdfBytes.jaVolunteer)

(***************************************************************************)
(* C7.  As stated: if the template document is missing or cannot be        *)
(* loaded, the failure is fatal and no render is attempted for any name    *)
(* of the batch.                                                           *)
(***************************************************************************)
C7_MissingTemplateIsFatal ==
    templateFile # "present" =>
        /\ generatedCertificates = <<>>
        /\ \A k \in DOMAIN batches :
              batches[k].pc # "render" /\ batches[k].certificates = <<>>

(***************************************************************************)
(* C7, as the code has it.  A template that is missing or cannot be        *)
(* fetched is not fatal: loadTemplate substitutes a generated basic        *)
(* template, the batch starts and every name is rendered on it, failing    *)
(* only where that name's own render fails.  When no template can be had   *)
(* at all (the fetched file does not parse, or the basic template cannot   *)
(* be built) the batch still starts and every name is recorded as a failed *)
(* item.                                                                   *)
(***************************************************************************)
RenderedAsTemplateAllows(c) ==
    /\ (templateFile \in {"missing", "unreachable"} /\ pdfLibLoaded) =>
           /\ c.success <=> c.studentName \notin failNames
           /\ c.success => c.pdfBytes.template = "basic"
    /\ (templateFile = "corrupt" \/ ~pdfLibLoaded) => ~c.success

C7_MissingTemplateFallsBack ==
    /\ \A j \in DOMAIN generatedCertificates :
          RenderedAsTemplateAllows(generatedCertificates[j])
    /\ \A k \in DOMAIN batches : \A j \in DOMAIN batches[k].certificates :
          RenderedAsTemplateAllows(batches[k].certificates[j])
    /\ \A k \in DOMAIN batches : batches[k].pc # "rejected"
    /\ lastOp # "generateError"

\* a report over a missing template whose certificates stand on the basic one
C7_Witness ==
    /\ templateFile = "missing"
    /\ Len(generatedCertificates) = 2
    /\ \A j \in DOMAIN generatedCertificates :
          /\ generatedCertificates[j].success
          /\ generatedCertificates[j].pdfBytes.template = "basic"

(***************************************************************************)
(* C9.  When extraction succeeds but finds no valid name, no error is      *)
(* raised: the extraction returns an empty list and processFile leaves the *)
(* session with an empty name list, manual name entry available and        *)
(* generation disabled.                                                    *)
(***************************************************************************)
\* the files of the session whose text holds no valid name
NamelessFiles ==
    {f \in AppFiles : detectFileType(f) = MimeTxt /\ extractNamesFromText(f.text) = <<>>}

C9_EmptyExtractionIsNoError ==
    /\ \A f \in NamelessFiles :
          LET o == parseFile(f, mammothLoaded, xlsxLoaded)
          IN  o.ok /\ o.names = <<>>
    /\ lastOp = "loadEmpty" =>
          /\ studentNames = <<>>
          /\ ~previewHidden
          /\ generateDisabled

\* a nameless file has been processed and the form is still on screen
C9_Witness ==
    /\ NamelessFiles # {}
    /\ lastOp = "loadEmpty"
    /\ pendingParses = <<>>
    /\ formVisible
    /\ studentNames = <<>>

(***************************************************************************)
(* C11.  In table mode a header row made of label cells contributes no     *)
(* entry: the list returned holds only the names of the data rows, and the *)
(* CSV with header "Student Name,Grade" and rows "John Smith,K",           *)
(* "Maria Garcia,K" yields exactly [John Smith, Maria Garcia].             *)
(***************************************************************************)
TableTypes == {MimeCsv, MimeCsvAlt, MimeXlsx, MimeXls}

\* rows whose cells are all labels
LabelRows == {StudentNameGrade, <<"N","a","m","e",",","G","r","a","d","e">>}

\* the names of a table text, read the way the file's kind is read
TableNames(file, text) ==
    IF detectFileType(file) \in {MimeCsv, MimeCsvAlt}
    THEN parseCsvText(text) ELSE parseXlsxCsv(text)

C11_HeaderRowContributesNothing ==
    (/\ Parsed /\ pOutcome.ok
     /\ detectFileType(pFile) \in TableTypes
     /\ TextLines(pFile.text) # <<>>
     /\ Head(TextLines(pFile.text)) \in LabelRows) =>
        /\ pOutcome.names = TableNames(pFile, JoinLines(Tail(TextLines(pFile.text))))
        /\ pFile.text = T_HeaderExample => pOutcome.names = <<JohnSmith, MariaGarcia>>

(***************************************************************************)
(* C14.  In table mode every cell is classified on its own, for CSV and    *)
(* spreadsheet inputs alike: a cell that validates as a name is returned   *)
(* whatever the other cells of its row contain.                            *)
(***************************************************************************)
C14_EveryValidCellReturned ==
    (Parsed /\ pOutcome.ok /\ detectFileType(pFile) \in TableTypes) =>
        \A r \in DOMAIN TextLines(pFile.text) :
            \A c \in Range(RowCells(TextLines(pFile.text)[r])) :
                isValidName(c) => cleanName(c) \in Range(pOutcome.names)

(***************************************************************************)
(* C12.  As stated: a line that contains '@', or starts with a URL scheme, *)
(* or consists only of digits emits no name at all, also when it holds     *)
(* separators.                                                             *)
(***************************************************************************)
Structural(line) ==
    \/ "@" \in Range(line)
    \/ MatchesUrl(line)
    \/ MatchesOnlyDigits(line)

HasSeparator(line) == \E c \in {",", ";", "|"} : c \in Range(line)

C12_StructuralLineEmitsNothing ==
    (Classified /\ Structural(cLine)) => cNames = <<>>

(***************************************************************************)
(* C12, as the code has it.  Such a line is never emitted as a whole and   *)
(* emits nothing when it holds no separator; when it holds ',' ';' or '|'  *)
(* every emitted name is one of the parts of the line, taken after the     *)
(* line's leading number or bullet is stripped, and no emitted part        *)
(* contains '@', starts with a URL scheme or consists only of digits.      *)
(***************************************************************************)
C12_StructuralLineEmitsOnlyCleanParts ==
    (Classified /\ Structural(cLine)) =>
        /\ ~HasSeparator(cLine) => cNames = <<>>
        /\ \A i \in DOMAIN cNames :
              /\ ~Structural(cNames[i])
              /\ cNames[i] # cLine
              /\ cNames[i] \in
                    {Trim(p) : p \in Range(SplitOn(
                        Trim(StripBulletPrefix(Trim(StripNumberPrefix(cLine)))),
                        {",", ";", "|"}))}

\* a line with an e-mail part and a name part has emitted the name
C12_Witness ==
    /\ Classified
    /\ "@" \in Range(cLine)
    /\ HasSeparator(cLine)
    /\ cNames = <<AlKo>>

(***************************************************************************)
(* C13.  As stated: for every field, page width and estimated text width   *)
(* from 0 up to the page width, the x chosen by addText keeps the text     *)
(* inside the margins: x >= 50 and x + textWidth <= pageWidth - 50.        *)
(***************************************************************************)
C13_TextInsideMargins ==
    (Drawn /\ TextWidth <= tPageWidth * 100) =>
        /\ tX >= Margin * 100
        /\ tX + TextWidth <= (tPageWidth - Margin) * 100

(***************************************************************************)
(* C13, as the code has it.  x >= 50 always; the text ends within the      *)
(* right margin for every estimated width up to pageWidth - 100, the room  *)
(* between the margins; a wider text is drawn at x = 50 and runs past the  *)
(* right margin.                                                           *)
(***************************************************************************)
C13_TextInsideMarginsWhenItFits ==
    Drawn =>
        /\ tX >= Margin * 100
        /\ IF TextWidth <= (tPageWidth - 2 * Margin) * 100
           THEN tX + TextWidth <= (tPageWidth - Margin) * 100
           ELSE tX = Margin * 100

\* a text that fits, drawn left of its centred place to end at the right margin
C13_Witness ==
    /\ Drawn
    /\ TextWidth > 0
    /\ tX > Margin * 100
    /\ tX < centeredX(positions[tField], TextWidth)
    /\ tX + TextWidth = (tPageWidth - Margin) * 100

(***************************************************************************)
(* C17.  Classification is idempotent on accepted input: for every line    *)
(* from which a name is emitted, classifying the emitted normalized name   *)
(* again emits exactly that name, neither rejected nor changed.            *)
(***************************************************************************)
C17_ClassifyIdempotent ==
    Classified =>
        \A n \in Range(cleanAndValidateNames(cNames)) :
            /\ ~isHeaderLine(n)
            /\ cleanAndValidateNames(extractNamesFromLine(n)) = <<n>>
            /\ extractNamesFromText(n) = <<n>>

\* a name has been emitted that normalization changes
C17_Witness ==
    /\ Classified
    /\ cNames # <<>>
    /\ cleanAndValidateNames(cNames) # <<>>
    /\ cleanAndValidateNames(cNames) # cNames

(***************************************************************************)
(* C15.  After any sequence of file loads, addName, removeName and reset   *)
(* operations, the session's name list holds no two entries whose          *)
(* normalized text (whitespace collapsed, disallowed characters stripped)  *)
(* is equal.                                                               *)
(***************************************************************************)
C15_NoDuplicateNormalizedNames ==
    \A i, j \in DOMAIN studentNames :
        i < j => cleanName(studentNames[i]) # cleanName(studentNames[j])

(***************************************************************************)
(* C16.  Every entry of the session's name list, extracted from a file or  *)
(* added by hand, satisfies the CandidateName invariant: at least two      *)
(* whitespace-separated tokens, each starting with a letter, length 2 to   *)
(* 100, and at least half of the characters letters.                       *)
(***************************************************************************)
CandidateName(n) ==
    /\ Len(SplitWords(n)) >= 2
    /\ \A i \in DOMAIN SplitWords(n) : IsLetter(SplitWords(n)[i][1])
    /\ Len(n) >= MinNameLength
    /\ Len(n) <= MaxNameLength
    /\ 2 * CountLetters(n) >= Len(n)

C16_EntriesAreCandidateNames ==
    \A i \in DOMAIN studentNames : CandidateName(studentNames[i])

(***************************************************************************)
(* C18.  If the name list is changed by removeName or addName at a suspend *)
(* point of a batch in flight, the batch still resolves, it does not       *)
(* reject, with exactly one result for each name the list held when the    *)
(* batch started, and no result has an undefined name.                     *)
(***************************************************************************)
ResultNames(certificates) ==
    [j \in DOMAIN certificates |-> certificates[j].studentName]

C18_BatchKeepsItsStartNames ==
    [][ (batches # <<>> /\ batches' = <<>>) =>
            /\ lastOp' # "generateError"
            /\ ResultNames(generatedCertificates') = batches[1].startNames
            /\ Undefined \notin Range(ResultNames(generatedCertificates')) ]_vars

(***************************************************************************)
(* C19.  The shared metadata is snapshotted at batch start: every          *)
(* certificate of one batch is rendered with the same school, date and     *)
(* signer values, also when the form inputs are edited at a suspend point  *)
(* while the batch is running.                                             *)
(***************************************************************************)
SharedFields(c) ==
    <<c.pdfBytes.schoolName, c.pdfBytes.date, c.pdfBytes.jaVolunteer, c.pdfBytes.teacher>>

SameSharedFields(certificates) ==
    \A i, j \in DOMAIN certificates :
        (certificates[i].success /\ certificates[j].success) =>
            SharedFields(certificates[i]) = SharedFields(certificates[j])

C19_SharedFieldsSameInBatch ==
    /\ SameSharedFields(generatedCertificates)
    /\ \A k \in DOMAIN batches :
          /\ SameSharedFields(batches[k].certificates)
          /\ \A j \in DOMAIN batches[k].certificates :
                batches[k].certificates[j].success =>
                    batches[k].certificates[j].pdfBytes.schoolName =
                        StampIf(batches[k].info.schoolName, batches[k].info.schoolName)

\* two certificates rendered, the form now holding other values than the
\* batch was started with
C19_Witness ==
    \E k \in DOMAIN batches :
        /\ Len(batches[k].certificates) = 2
        /\ batches[k].certificates[1].success
        /\ batches[k].certificates[2].success
        /\ Trim(form.schoolName) # batches[k].info.schoolName
        /\ batches[k].info.schoolName # <<>>

(***************************************************************************)
(* C20.  Once the template is loaded, no render modifies it: after any     *)
(* number of generateCertificate calls, succeeding or failing,             *)
(* templateBuffer is unchanged, so the document produced for a name and a  *)
(* CertificateInfo does not depend on which renders ran before it.         *)
(***************************************************************************)
DocumentsDependOnInputsOnly ==
    \A k \in DOMAIN batches : \A j \in DOMAIN batches[k].certificates :
        batches[k].certificates[j].success =>
            batches[k].certificates[j].pdfBytes =
                RenderedDocument(batches[k].certificates[j].studentName,
                                 batches[k].info, templateBuffer)

C20_RendersLeaveTemplateUnchanged ==
    [][ /\ templateBuffer # "null" => templateBuffer' = templateBuffer
        /\ DocumentsDependOnInputsOnly' ]_vars

\* on a loaded template, a render has succeeded after one that failed
C20_Witness ==
    /\ templateBuffer # "null"
    /\ \E k \in DOMAIN batches :
          /\ Len(batches[k].certificates) = 2
          /\ ~batches[k].certificates[1].success
          /\ batches[k].certificates[2].success

(***************************************************************************)
(* C21.  A line holding two valid names separated by a comma, a semicolon  *)
(* or a pipe, with or without surrounding spaces, yields both names as two *)
(* separate entries of the name list, never one merged entry.              *)
(***************************************************************************)
Separators == {",", ";", "|"}

\* the places of a line where one separator stands between two valid names
TwoNameSplits(line) ==
    {i \in DOMAIN line :
        /\ line[i] \in Separators
        /\ \A j \in DOMAIN line : j # i => line[j] \notin Separators
        /\ isValidName(SubSeq(line, 1, i - 1))
        /\ isValidName(SubSeq(line, i + 1, Len(line)))}

C21_TwoNamesTwoEntries ==
    (Parsed /\ pFile.ext = "txt") =>
        \A k \in DOMAIN TextLines(pFile.text) :
            LET line == TextLines(pFile.text)[k]
            IN  \A i \in TwoNameSplits(line) :
                    /\ pOutcome.ok
                    /\ cleanName(SubSeq(line, 1, i - 1)) \in Range(pOutcome.names)
                    /\ cleanName(SubSeq(line, i + 1, Len(line))) \in Range(pOutcome.names)

(***************************************************************************)
(* C22.  Normalization preserves apostrophes and hyphens: every apostrophe *)
(* and hyphen inside an accepted name is still present, at the same place, *)
(* in the name returned by extraction, in lines mode and in table mode.    *)
(***************************************************************************)
\* the letters, digits, apostrophes and hyphens of a text, in their order
Skeleton(s) == SelectSeq(s, LAMBDA c : IsWordChar(c) \/ c \in {"'", "-"})

\* the texts a roster offers as names: its lines in lines mode, the cells of
\* its rows in table mode
OfferedTexts(file) ==
    IF file.ext = "txt" THEN Range(TextLines(file.text))
    ELSE UNION {{Trim(c) : c \in Range(SplitOn(TextLines(file.text)[r], {",", ";", "\t"}))} :
                    r \in {q \in DOMAIN TextLines(file.text) :
                              file.ext = "xlsx" => ~isHeaderLine(TextLines(file.text)[q])}}

C22_ApostrophesAndHyphensKept ==
    (Parsed /\ pOutcome.ok /\ pFile.ext \in {"txt", "csv", "xlsx"}) =>
        \A t \in OfferedTexts(pFile) :
            (isValidName(t) /\ \E i \in DOMAIN t : t[i] \in {"'", "-"}) =>
                \E j \in DOMAIN pOutcome.names :
                    Skeleton(pOutcome.names[j]) = Skeleton(t)

(***************************************************************************)
(* C23.  Table-mode extraction returns exactly the lines-mode result over  *)
(* the whole raw text when cell-wise parsing finds no name, and returns    *)
(* the deduplicated cell-wise result, without consulting lines mode,       *)
(* whenever cell-wise parsing finds at least one name.                     *)
(***************************************************************************)
\* what cell-wise parsing finds in a table file
CellWise(file) ==
    CellNames(SelectSeq(TextLines(file.text),
                  LAMBDA l : detectFileType(file) \in {MimeXlsx, MimeXls} => ~isHeaderLine(l)))

FirstAt(seq, x) == CHOOSE i \in DOMAIN seq : seq[i] = x /\ \A j \in 1..(i - 1) : seq[j] # x

C24_StampedDateIsEnteredDate ==
    Formatted => formattedDate = LongDate(ParseDate(dateString))

(***************************************************************************)
(* C25.  After every completed operation of the session (file load with or *)
(* without names, failed file load, addName, removeName, reset), the       *)
(* generate and preview buttons are enabled exactly when the name list is  *)
(* non-empty, and handleFormSubmit never starts a batch over an empty name *)
(* list.  The page is taken to show both buttons disabled at first.        *)
(***************************************************************************)
SessionOperations ==
    {"loadNames", "loadEmpty", "loadError", "addName", "addRefused", "removeName", "reset"}

ButtonsFollowNames ==
    /\ lastOp \in SessionOperations =>
          /\ generateDisabled = (studentNames = <<>>)
          /\ previewDisabled = (studentNames = <<>>)
    /\ \A k \in DOMAIN batches : batches[k].startNames # <<>>

C25_ButtonsFollowNames ==
    (generateDisabled /\ previewDisabled) => []ButtonsFollowNames

\* a load has failed over a list that holds names, a batch is running, and
\* the buttons are still enabled
C25_Witness ==
    /\ lastOp = "loadError"
    /\ studentNames # <<>>
    /\ ~generateDisabled /\ ~previewDisabled
    /\ generatedCertificates # <<>>

(***************************************************************************)
(* C26.  When parsing an uploaded file fails with an error, processFile    *)
(* leaves the session's name list and generated-certificate list exactly   *)
(* as they were before the upload.                                         *)
(***************************************************************************)
C26_FailedLoadChangesNoList ==
    [][ (/\ pendingParses # <<>>
         /\ ~Head(pendingParses).ok
         /\ pendingParses' = Tail(pendingParses)) =>
            /\ studentNames' = studentNames
            /\ generatedCertificates' = generatedCertificates ]_vars

\* a load has failed with two names listed and their certificates generated
C26_Witness ==
    /\ lastOp = "loadError"
    /\ Len(studentNames) = 2
    /\ Len(generatedCertificates) = 2

C28_PrintAllIndividuallyTerminates ==
    (printCall.fn = "individually") ~> (printCall.pc = "returned")

(***************************************************************************)
(* C29.  In printAllIndividually certificates are attempted in list order; *)
(* after a print failure the next certificate is attempted only if the     *)
(* user confirms, a declined confirmation stops the loop with no later     *)
(* certificate attempted, and the call returns true exactly when at least  *)
(* one certificate was printed.                                            *)
(***************************************************************************)
C29_AttemptsInOrderUntilDeclined ==
    printCall.fn = "individually" =>
        /\ \A j \in DOMAIN printCall.log : printCall.log[j].i = j
        /\ printCall.pc \in {"frame", "timer", "stuck"} =>
              printCall.i = Len(printCall.log) + 1
        /\ \A j \in DOMAIN printCall.log :
              ~printCall.log[j].sent =>
                  IF printCall.log[j].answer = "continue"
                  THEN TRUE
                  ELSE j = Len(printCall.log) /\ printCall.pc = "returned"
        /\ printCall.pc = "returned" =>
              (printCall.result = "true") =
                  (\E j \in DOMAIN printCall.log : printCall.log[j].sent)

\* the first certificate failed, the user went on, the second was printed
\* and the call returned true
C29_Witness ==
    /\ printCall.fn = "individually"
    /\ printCall.pc = "returned"
    /\ printCall.result = "true"
    /\ Len(printCall.log) = 2
    /\ ~printCall.log[1].sent
    /\ printCall.log[2].sent

====
